---- MODULE Spec2Model ----
(***************************************************************************)
(* Model of the VBM Interactive Paper Visualizer client (assets/app.js):   *)
(* the keyword query interpreter and analysis matcher                      *)
(* (findBestMatchKeyword), the query handler (handleQuery) with its        *)
(* narration round trip, and the session query counter.                    *)
(*                                                                         *)
(* Query texts are TLA+ strings; the regular expressions of the pattern    *)
(* table are evaluated on them character by character as sets of match     *)
(* positions (position p means "the next character read is s[p]").         *)
(***************************************************************************)
EXTENDS Integers, Sequences, FiniteSets, TLC

VARIABLES
    pc,             \* position of init(): "loading", "ready" or "failed"
    analysisData,   \* analysisData.analyses once loaded (<<>> while null)
    queryCount,     \* queryCount.table
    stored,         \* localStorage slot 'vbm_query_counts' (<<>> if unset)
    now,            \* Date.now()
    inputValue,     \* elements.tableInput.value
    inputDisabled,  \* elements.tableInput.disabled
    submitDisabled, \* elements.tableSubmit.disabled
    counterText,    \* number shown in elements.tableQueryCounter
    messages,       \* children of elements.tableMessages, oldest first
    spinners,       \* number of .chat-loading elements in tableMessages
    pending,        \* handleQuery invocations suspended on their fetch
    plot,           \* content of #coef-plot
    tableBody,      \* rows of elements.tableBody
    sent,           \* number of POSTs made to /api/chat
    accepted,       \* number of handleQuery invocations past the rate check
    match           \* last value returned by findBestMatchKeyword

vars == <<pc, analysisData, queryCount, stored, now, inputValue, inputDisabled,
          submitDisabled, counterText, messages, spinners, pending, plot,
          tableBody, sent, accepted, match>>

-----------------------------------------------------------------------------
(* Constants of app.js *)

MAX_QUERIES_PER_HOUR == 100

\* SIMILARITY_THRESHOLD = 0.5, kept as the fraction ThresholdNum/ThresholdDen
ThresholdNum == 1
ThresholdDen == 2

maxPossibleScore == 30

HourMs == 3600000

Null == "null"

relevantOutcomes ==
    {"dem_share", "turnout", "dem_share_pres", "dem_share_gov", "dem_share_sen"}

-----------------------------------------------------------------------------
(* Strings and regular expressions *)

UpperCase == <<"A","B","C","D","E","F","G","H","I","J","K","L","M",
               "N","O","P","Q","R","S","T","U","V","W","X","Y","Z">>
LowerCase == <<"a","b","c","d","e","f","g","h","i","j","k","l","m",
               "n","o","p","q","r","s","t","u","v","w","x","y","z">>
Digits == {"0","1","2","3","4","5","6","7","8","9"}

Ch(s, p) == SubSeq(s, p, p)

LowerChar(c) ==
    IF \E k \in 1..26 : UpperCase[k] = c
    THEN LowerCase[CHOOSE k \in 1..26 : UpperCase[k] = c]
    ELSE c

RECURSIVE LowerFrom(_, _)
LowerFrom(s, p) ==
    IF p > Len(s) THEN "" ELSE LowerChar(Ch(s, p)) \o LowerFrom(s, p + 1)

\* String.prototype.toLowerCase
toLowerCase(s) == LowerFrom(s, 1)

\* String.prototype.trim is applied to texts whose only whitespace is " "
RECURSIVE TrimLeft(_)
TrimLeft(s) ==
    IF Len(s) > 0 /\ Ch(s, 1) = " " THEN TrimLeft(SubSeq(s, 2, Len(s))) ELSE s

RECURSIVE TrimRight(_)
TrimRight(s) ==
    IF Len(s) > 0 /\ Ch(s, Len(s)) = " "
    THEN TrimRight(SubSeq(s, 1, Len(s) - 1)) ELSE s

trim(s) == TrimRight(TrimLeft(s))

\* \w
IsWordChar(c) ==
    \/ \E k \in 1..26 : LowerCase[k] = c \/ UpperCase[k] = c
    \/ c \in Digits
    \/ c = "_"

\* \s
IsSpace(c) == c = " "

Positions(s) == 1..(Len(s) + 1)

\* a literal: the positions reached from a position of P by reading w
Lit(s, P, w) ==
    {p + Len(w) : p \in {q \in P : q + Len(w) - 1 <= Len(s)
                                  /\ SubSeq(s, q, q + Len(w) - 1) = w}}

\* \s*
Spaces(s, P) ==
    {q \in Positions(s) :
        \E p \in P : p <= q /\ \A k \in p..(q - 1) : IsSpace(Ch(s, k))}

\* .?
AnyOpt(s, P) == P \cup {p + 1 : p \in {q \in P : q <= Len(s)}}

\* .*
AnyStar(s, P) == {q \in Positions(s) : \E p \in P : p <= q}

\* \b
WordBoundary(s, P) ==
    {p \in P : (p > 1 /\ IsWordChar(Ch(s, p - 1)))
                   # (p <= Len(s) /\ IsWordChar(Ch(s, p)))}

\* RegExp.prototype.test for an expression given as its set of end positions
Test(ends) == ends # {}

\* /exclud(e|ing)\s*(<name>|<abbr>)\b/i
ReExclud(s, name, abbr) ==
    LET a == Lit(s, Positions(s), "exclud")
        b == Lit(s, a, "e") \cup Lit(s, a, "ing")
        c == Spaces(s, b)
    IN  Test(WordBoundary(s, Lit(s, c, name) \cup Lit(s, c, abbr)))

\* /excl\.?\s*(<abbr>|<name>)\b/i
ReExcl(s, name, abbr) ==
    LET a == Lit(s, Positions(s), "excl")
        b == a \cup Lit(s, a, ".")
        c == Spaces(s, b)
    IN  Test(WordBoundary(s, Lit(s, c, abbr) \cup Lit(s, c, name)))

\* /original|1996.?2018/i
ReOriginal(s) ==
    \/ Test(Lit(s, Positions(s), "original"))
    \/ Test(Lit(s, AnyOpt(s, Lit(s, Positions(s), "1996")), "2018"))

\* variant: the rule without its "after 2018" alternative
RePost2018NoAfter(s) ==
    \/ Test(Lit(s, AnyOpt(s, Lit(s, Positions(s), "post")), "2018"))
    \/ Test(Lit(s, AnyOpt(s, Lit(s, Positions(s), "2018")), "2024"))

\* /post.?2018|after 2018|2018.?2024/i
RePost2018(s) ==
    \/ Test(Lit(s, AnyOpt(s, Lit(s, Positions(s), "post")), "2018"))
    \/ Test(Lit(s, Positions(s), "after 2018"))
    \/ Test(Lit(s, AnyOpt(s, Lit(s, Positions(s), "2018")), "2024"))

\* /without 2024|exclud.*2024|1996.?2022|excl.*2024/i
ReWithout2024(s) ==
    \/ Test(Lit(s, Positions(s), "without 2024"))
    \/ Test(Lit(s, AnyStar(s, Lit(s, Positions(s), "exclud")), "2024"))
    \/ Test(Lit(s, AnyOpt(s, Lit(s, Positions(s), "1996")), "2022"))
    \/ Test(Lit(s, AnyStar(s, Lit(s, Positions(s), "excl")), "2024"))

\* /turn(out)?/i
ReTurnout(s) ==
    LET a == Lit(s, Positions(s), "turn") IN Test(a \cup Lit(s, a, "out"))

\* /pres(ident(ial)?)?/i
RePres(s) ==
    LET a == Lit(s, Positions(s), "pres")
        b == Lit(s, a, "ident")
    IN  Test(a \cup b \cup Lit(s, b, "ial"))

\* /gov(ernor)?/i
ReGov(s) ==
    LET a == Lit(s, Positions(s), "gov") IN Test(a \cup Lit(s, a, "ernor"))

\* /sen(at(e|or))?/i
ReSen(s) ==
    LET a == Lit(s, Positions(s), "sen")
        b == Lit(s, a, "at")
    IN  Test(a \cup Lit(s, b, "e") \cup Lit(s, b, "or"))

\* /vote\s*share|partisan|democrat/i
ReVoteShare(s) ==
    \/ Test(Lit(s, Spaces(s, Lit(s, Positions(s), "vote")), "share"))
    \/ Test(Lit(s, Positions(s), "partisan"))
    \/ Test(Lit(s, Positions(s), "democrat"))

\* /linear/i
ReLinear(s) == Test(Lit(s, Positions(s), "linear"))

\* /quadratic|quad\b/i
ReQuadratic(s) ==
    \/ Test(Lit(s, Positions(s), "quadratic"))
    \/ Test(WordBoundary(s, Lit(s, Positions(s), "quad")))

\* /basic|simple/i
ReBasic(s) ==
    \/ Test(Lit(s, Positions(s), "basic"))
    \/ Test(Lit(s, Positions(s), "simple"))

\* /weight(ed)?|population/i
ReWeighted(s) ==
    LET a == Lit(s, Positions(s), "weight")
    IN  \/ Test(a \cup Lit(s, a, "ed"))
        \/ Test(Lit(s, Positions(s), "population"))

\* /\b(<name>|<abbr>)\b/i
ReState(s, name, abbr) ==
    LET a == WordBoundary(s, Positions(s))
    IN  Test(WordBoundary(s, Lit(s, a, name) \cup Lit(s, a, abbr)))

-----------------------------------------------------------------------------
(* findBestMatchKeyword: the pattern tables *)

NoTime == <<>>

Pattern(hit, filter, time, outcome, spec, weighted) ==
    [hit |-> hit, filter |-> filter, time |-> time, outcome |-> outcome,
     spec |-> spec, weighted |-> weighted]

\* the table `patterns`, each regex already tested against queryLower
patterns(s) == <<
    Pattern(ReExclud(s, "california", "ca"), "exclude_CA", NoTime, Null, Null, FALSE),
    Pattern(ReExclud(s, "utah", "ut"),       "exclude_UT", NoTime, Null, Null, FALSE),
    Pattern(ReExclud(s, "washington", "wa"), "exclude_WA", NoTime, Null, Null, FALSE),
    Pattern(ReExcl(s, "california", "ca"),   "exclude_CA", NoTime, Null, Null, FALSE),
    Pattern(ReExcl(s, "utah", "ut"),         "exclude_UT", NoTime, Null, Null, FALSE),
    Pattern(ReExcl(s, "washington", "wa"),   "exclude_WA", NoTime, Null, Null, FALSE),
    Pattern(ReOriginal(s),    Null, <<1996, 2018>>, Null, Null, FALSE),
    Pattern(RePost2018(s),    Null, <<2018, 2024>>, Null, Null, FALSE),
    Pattern(ReWithout2024(s), Null, <<1996, 2022>>, Null, Null, FALSE),
    Pattern(ReTurnout(s),   Null, NoTime, "turnout",        Null, FALSE),
    Pattern(RePres(s),      Null, NoTime, "dem_share_pres", Null, FALSE),
    Pattern(ReGov(s),       Null, NoTime, "dem_share_gov",  Null, FALSE),
    Pattern(ReSen(s),       Null, NoTime, "dem_share_sen",  Null, FALSE),
    Pattern(ReVoteShare(s), Null, NoTime, "dem_share",      Null, FALSE),
    Pattern(ReLinear(s),    Null, NoTime, Null, "linear",    FALSE),
    Pattern(ReQuadratic(s), Null, NoTime, Null, "quadratic", FALSE),
    Pattern(ReBasic(s),     Null, NoTime, Null, "basic",     FALSE),
    Pattern(ReWeighted(s),  Null, NoTime, Null, Null, TRUE) >>

\* the table `statePatterns`
statePatterns(s) == <<
    [hit |-> ReState(s, "california", "ca"), filter |-> "CA"],
    [hit |-> ReState(s, "utah", "ut"),       filter |-> "UT"],
    [hit |-> ReState(s, "washington", "wa"), filter |-> "WA"] >>

\* String.prototype.startsWith
startsWith(s, prefix) ==
    Len(s) >= Len(prefix) /\ SubSeq(s, 1, Len(prefix)) = prefix

\* the criteria before the first pass
InitialTarget ==
    [targetFilter |-> Null, targetTime |-> NoTime, targetOutcome |-> Null,
     targetWeighted |-> FALSE, targetSpec |-> "basic"]

\* variant: a later outcome rule overwrites the outcome
ApplyPatternOverwriting(t, pattern) ==
    IF ~pattern.hit THEN t
    ELSE [targetFilter   |-> IF pattern.filter # Null
                             THEN pattern.filter ELSE t.targetFilter,
          targetTime     |-> IF pattern.time # NoTime
                             THEN pattern.time ELSE t.targetTime,
          targetOutcome  |-> IF pattern.outcome # Null
                             THEN pattern.outcome ELSE t.targetOutcome,
          targetWeighted |-> IF pattern.weighted
                             THEN pattern.weighted ELSE t.targetWeighted,
          targetSpec     |-> IF pattern.spec # Null
                             THEN pattern.spec ELSE t.targetSpec]

\* body of the first-pass loop for one pattern
ApplyPattern(t, pattern) ==
    IF ~pattern.hit THEN t
    ELSE [targetFilter   |-> IF pattern.filter # Null
                             THEN pattern.filter ELSE t.targetFilter,
          targetTime     |-> IF pattern.time # NoTime
                             THEN pattern.time ELSE t.targetTime,
          targetOutcome  |-> IF pattern.outcome # Null /\ t.targetOutcome = Null
                             THEN pattern.outcome ELSE t.targetOutcome,
          targetWeighted |-> IF pattern.weighted
                             THEN pattern.weighted ELSE t.targetWeighted,
          targetSpec     |-> IF pattern.spec # Null
                             THEN pattern.spec ELSE t.targetSpec]

RECURSIVE FirstPassFrom(_, _, _)
FirstPassFrom(ps, k, t) ==
    IF k > Len(ps) THEN t ELSE FirstPassFrom(ps, k + 1, ApplyPattern(t, ps[k]))

FirstPass(s) == FirstPassFrom(patterns(s), 1, InitialTarget)

IsExcludeFilter(f) == f # Null /\ startsWith(f, "exclude_")

\* variant: a plain state mention always sets the filter
SecondPassOverwriting(s, t) ==
    LET sp   == statePatterns(s)
        hits == {k \in 1..Len(sp) : sp[k].hit}
    IN  IF hits # {}
        THEN [t EXCEPT !.targetFilter =
                  sp[CHOOSE k \in hits : \A j \in hits : k <= j].filter]
        ELSE t

\* second pass: the first state pattern that matches sets the filter, unless
\* the first pass left an exclude filter
SecondPass(s, t) ==
    LET sp   == statePatterns(s)
        hits == {k \in 1..Len(sp) : sp[k].hit}
    IN  IF ~IsExcludeFilter(t.targetFilter) /\ hits # {}
        THEN [t EXCEPT !.targetFilter =
                  sp[CHOOSE k \in hits : \A j \in hits : k <= j].filter]
        ELSE t

\* the criteria extracted from a query
Interpret(query) ==
    LET queryLower == toLowerCase(query)
    IN  SecondPass(queryLower, FirstPass(queryLower))

-----------------------------------------------------------------------------
(* findBestMatchKeyword: scoring *)

\* a record field the JSON of the record omits: reading it gives undefined
Undefined == "undefined"
UndefinedTime == <<"undefined">>

\* JSON.stringify of a time window (null, a pair of years, or undefined, for
\* which the result is the value undefined and not a string)
JSONstringify(w) ==
    IF w = NoTime THEN <<"null">>
    ELSE IF w = UndefinedTime THEN <<"undefined">>
    ELSE <<"[", w[1], ",", w[2], "]">>

\* !x for a string-or-null field and for a time window
NotFilter(f) == f \in {Null, Undefined}
NotTime(w) == w \in {NoTime, UndefinedTime}

StateFilterTerm(t, analysis) ==
    IF ~NotFilter(t.targetFilter) /\ analysis.state_filter = t.targetFilter THEN 10
    ELSE IF NotFilter(t.targetFilter) /\ NotFilter(analysis.state_filter) THEN 2
    ELSE 0

\* variant: two absent windows count as an exact match
TimeWindowTermEqual(t, analysis) ==
    IF JSONstringify(analysis.time_window) = JSONstringify(t.targetTime)
    THEN 10 ELSE 0

TimeWindowTerm(t, analysis) ==
    IF ~NotTime(t.targetTime)
       /\ JSONstringify(analysis.time_window) = JSONstringify(t.targetTime)
    THEN 10
    ELSE IF NotTime(t.targetTime) /\ NotTime(analysis.time_window) THEN 2
    ELSE 0

\* variant: no bonus for the pooled outcome when the query names no outcome
OutcomeTermNoFallback(t, analysis) ==
    IF t.targetOutcome # Null /\ analysis.outcome = t.targetOutcome THEN 10
    ELSE 0

OutcomeTerm(t, analysis) ==
    IF t.targetOutcome # Null /\ analysis.outcome = t.targetOutcome THEN 10
    ELSE IF t.targetOutcome = Null /\ analysis.outcome = "dem_share" THEN 1
    ELSE 0

\* variant: the weighting bonus goes to the unweighted records
WeightedTermNegated(t, analysis) ==
    IF t.targetWeighted /\ ~analysis.weighted THEN 5
    ELSE IF ~t.targetWeighted /\ ~analysis.weighted THEN 1
    ELSE 0

WeightedTerm(t, analysis) ==
    IF t.targetWeighted /\ analysis.weighted THEN 5
    ELSE IF ~t.targetWeighted /\ ~analysis.weighted THEN 1
    ELSE 0

SpecificationTerm(t, analysis) ==
    IF analysis.specification = t.targetSpec THEN 3 ELSE 0

Score(t, analysis) ==
    StateFilterTerm(t, analysis) + TimeWindowTerm(t, analysis)
    + OutcomeTerm(t, analysis) + WeightedTerm(t, analysis)
    + SpecificationTerm(t, analysis)

\* variant: a later analysis with an equal score also replaces the best one
BetterOrEqual(score, bestScore) == score >= bestScore

\* a later analysis replaces the best one found so far
Better(score, bestScore) == score > bestScore

\* the scoring loop; best = [bestMatch |-> index into analyses (0 = null),
\*                           bestScore |-> its score]
RECURSIVE ScoreLoop(_, _, _, _)
ScoreLoop(analyses, t, k, best) ==
    IF k > Len(analyses) THEN best
    ELSE IF analyses[k].outcome \notin relevantOutcomes
         THEN ScoreLoop(analyses, t, k + 1, best)
         ELSE LET score == Score(t, analyses[k])
              IN  IF Better(score, best.bestScore)
                  THEN ScoreLoop(analyses, t, k + 1,
                                 [bestMatch |-> k, bestScore |-> score])
                  ELSE ScoreLoop(analyses, t, k + 1, best)

\* similarity = bestScore / maxPossibleScore, kept as <<numerator, denominator>>
Similarity(bestScore) == <<bestScore, maxPossibleScore>>

\* variant: the first record is the best match until a better one is found
findBestMatchKeywordFirstByDefault(query, analyses) ==
    LET t    == Interpret(query)
        best == ScoreLoop(analyses, t, 1,
                          [bestMatch |-> IF Len(analyses) > 0 THEN 1 ELSE 0,
                           bestScore |-> 0])
    IN  [query |-> query, target |-> t, analysis |-> best.bestMatch,
         similarity |-> Similarity(best.bestScore)]

findBestMatchKeyword(query, analyses) ==
    LET t    == Interpret(query)
        best == ScoreLoop(analyses, t, 1, [bestMatch |-> 0, bestScore |-> 0])
    IN  [query |-> query, target |-> t, analysis |-> best.bestMatch,
         similarity |-> Similarity(best.bestScore)]

\* variant: the threshold itself is rejected
AtOrBelowThreshold(similarity) ==
    similarity[1] * ThresholdDen <= ThresholdNum * similarity[2]

\* match.similarity < SIMILARITY_THRESHOLD
BelowThreshold(similarity) ==
    similarity[1] * ThresholdDen < ThresholdNum * similarity[2]

-----------------------------------------------------------------------------
(* The result corpus *)

\* p-values are kept in thousandths (p_value = 4 stands for 0.004)
Analysis(outcome, specification, state_filter, time_window, weighted, cluster) ==
    [outcome |-> outcome, specification |-> specification,
     state_filter |-> state_filter, time_window |-> time_window,
     weighted |-> weighted, cluster |-> cluster,
     success |-> TRUE, p_value |-> 4]

\* the same analysis with another estimation outcome
Estimated(analysis, success, p_value) ==
    [analysis EXCEPT !.success = success, !.p_value = p_value]

\* findAnalysis: index of the first analysis with the given key, 0 if none
findAnalysis(analyses, outcome, specification, stateFilter, timeWindow) ==
    LET found == {k \in 1..Len(analyses) :
                     /\ analyses[k].outcome = outcome
                     /\ analyses[k].specification = specification
                     /\ analyses[k].state_filter = stateFilter
                     /\ JSONstringify(analyses[k].time_window)
                            = JSONstringify(timeWindow)
                     /\ ~analyses[k].weighted
                     /\ analyses[k].cluster = "county"}
    IN  IF found = {} THEN 0 ELSE CHOOSE k \in found : \A j \in found : k <= j

\* variant: the baseline is looked up for the outcome itself
getBaselineSameOutcome(analyses, outcome) ==
    findAnalysis(analyses, outcome, "quadratic", Null, NoTime)

getBaseline(analyses, outcome) ==
    findAnalysis(analyses, IF outcome = "turnout" THEN "turnout" ELSE "dem_share",
                 "quadratic", Null, NoTime)

\* records the corpora of the model are built from
PooledBasic     == Analysis("dem_share", "basic", Null, NoTime, FALSE, "county")
PooledQuadratic == Analysis("dem_share", "quadratic", Null, NoTime, FALSE, "county")
PooledExclCA    == Analysis("dem_share", "basic", "exclude_CA", NoTime, FALSE, "county")
PooledCAOnly    == Analysis("dem_share", "basic", "CA", NoTime, FALSE, "county")
PooledPost2018  == Analysis("dem_share", "basic", Null, <<2018, 2024>>, FALSE, "county")
PooledWeighted  == Analysis("dem_share", "basic", Null, NoTime, TRUE, "county")
PooledByState   == Analysis("dem_share", "basic", Null, NoTime, FALSE, "state")
TurnoutBasic    == Analysis("turnout", "basic", Null, NoTime, FALSE, "county")
TurnoutLinear   == Analysis("turnout", "linear", Null, NoTime, FALSE, "county")
TurnoutQuadratic == Analysis("turnout", "quadratic", Null, NoTime, FALSE, "county")
TurnoutFull     == Analysis("turnout", "basic", "exclude_CA", <<1996, 2018>>, TRUE, "county")
PresBasic       == Analysis("dem_share_pres", "basic", Null, NoTime, FALSE, "county")
GovLinearUT     == Analysis("dem_share_gov", "linear", "UT", <<1996, 2022>>, FALSE, "state_year")
\* a record with an outcome the matcher skips
HouseBasic      == Analysis("dem_share_house", "basic", Null, NoTime, FALSE, "county")
TurnoutFullLinear ==
    Analysis("turnout", "linear", "exclude_CA", <<1996, 2018>>, TRUE, "county")
\* a record whose JSON has no state_filter and no time_window key
PooledQuadraticOmitted ==
    Analysis("dem_share", "quadratic", Undefined, UndefinedTime, FALSE, "county")

AnalysisRecords ==
    {PooledBasic, PooledQuadratic, PooledExclCA, PooledCAOnly,
     PooledPost2018, PooledWeighted, PooledByState,
     TurnoutLinear, TurnoutQuadratic, TurnoutFull,
     PresBasic, GovLinearUT, HouseBasic}

\* largest corpus the matcher is run against
MaxCorpus == 2

Corpora == UNION {[1..n -> AnalysisRecords] : n \in 0..MaxCorpus}

\* corpora served to the page
PaperCorpus ==
    <<PooledBasic, PooledQuadratic, PooledExclCA, PooledCAOnly,
      TurnoutBasic, TurnoutLinear, TurnoutQuadratic, TurnoutFull, PresBasic>>
NoBaselineCorpus == <<PooledExclCA, TurnoutLinear, PresBasic>>

ServedCorpora == {PaperCorpus, NoBaselineCorpus}

\* query texts the matcher is run against
Texts ==
    {"What if we excluded California?",
     "Show me this with only presidential elections",
     "What about third-party vote share?",
     "Did the effect change after 2018?",
     "excluding California",
     "Excluding California but keep Utah",
     "exclude ca and utah",
     "excl. WA",
     "excl utah, california only",
     "exclude Utah and excluding Washington",
     "excludes California",
     "California only",
     "just UT and WA",
     "Washington turnout, weighted",
     "turnout",
     "turnout in presidential years",
     "democrat vote share and turnout",
     "partisan turnout in senate races",
     "democrat vote share for governor",
     "senate races, linear trends",
     "quad trends",
     "quadratic and linear",
     "simple linear model",
     "population weighted",
     "original sample 1996-2018",
     "post-2018 only",
     "without 2024",
     "excluding California, 2018-2024",
     "1996-2022 turnout basic",
     "excluding california original turnout weighted basic",
     "exclude utah 1996 2018 governor weighted linear",
     "excl. wa 2018-2024 senate population quadratic",
     "california original presidential weighted simple",
     "hello",
     "  turnout  ",
     "EXCLUDING CALIFORNIA"}

-----------------------------------------------------------------------------
(* The page: state after the script is evaluated *)

\* texts typed into the input, and the data-query of the example buttons
TypedTexts == {"  ", "excluding California"}
ExampleQueries ==
    {"What if we excluded California?", "turnout",
     "Show me this with only presidential elections"}

\* content of localStorage left by an earlier visit (<<>> = no item)
NoItem == <<>>
StoredItem(counts, timestamp) == <<[counts |-> counts, timestamp |-> timestamp]>>
EarlierCounts == {99, 100}
EarlierItems == {NoItem} \cup {StoredItem(c, 0) : c \in EarlierCounts}

\* the clock advances in steps of half the rate-limit window
ClockStep == HourMs \div 2
MaxTicks == 2

\* handleQuery invocations with a non-empty query, per page
MaxQueries == 2

NoMatch ==
    [query |-> "", target |-> InitialTarget, analysis |-> 0,
     similarity |-> Similarity(0)]

EmptyPlot ==
    [kind |-> "empty", baseline |-> 0, current |-> 0, bStars |-> 0, cStars |-> 0]

PageInit ==
    /\ queryCount = 0
    /\ inputValue = ""
    /\ inputDisabled = FALSE
    /\ submitDisabled = FALSE
    /\ counterText = MAX_QUERIES_PER_HOUR
    /\ messages = <<>>
    /\ spinners = 0
    /\ pending = {}
    /\ plot = EmptyPlot
    /\ tableBody = <<>>
    /\ sent = 0
    /\ accepted = 0
    /\ match = NoMatch

Init ==
    /\ pc = "loading"
    /\ analysisData = <<>>
    /\ stored \in EarlierItems
    /\ now = 0
    /\ PageInit

-----------------------------------------------------------------------------
(* init() *)

\* updateQueryCounters: <<counter text, tableSubmit.disabled>> for a count
updateQueryCounters(count) ==
    LET tableRemaining == MAX_QUERIES_PER_HOUR - count
    IN  [text |-> tableRemaining, disabled |-> tableRemaining <= 0]

\* loadQueryCounts: the count in memory after reading localStorage
loadQueryCounts(item, count, time) ==
    IF item # NoItem /\ time - item[1].timestamp < HourMs
    THEN item[1].counts ELSE count

\* the cell shown for an absent or unsuccessful analysis
MissingCell == [analysis |-> 0, stars |-> 0, significant |-> FALSE]

\* variant: the thresholds of the table cell are inclusive
formatCellInclusive(analyses, k) ==
    IF k = 0 \/ ~analyses[k].success THEN MissingCell
    ELSE LET pVal == analyses[k].p_value
         IN  [analysis |-> k,
              stars |-> IF pVal <= 10 THEN 3
                        ELSE IF pVal <= 50 THEN 2
                        ELSE IF pVal <= 100 THEN 1 ELSE 0,
              significant |-> pVal < 50]

\* formatCell: the analysis shown (0: the missing glyph), the number of stars
\* after the coefficient and whether the cell has the class 'significant'
formatCell(analyses, k) ==
    IF k = 0 \/ ~analyses[k].success THEN MissingCell
    ELSE LET pVal == analyses[k].p_value
         IN  [analysis |-> k,
              stars |-> IF pVal < 10 THEN 3
                        ELSE IF pVal < 50 THEN 2
                        ELSE IF pVal < 100 THEN 1 ELSE 0,
              significant |-> pVal < 50]

\* getSignificanceStars: the number of stars
getSignificanceStars(analyses, k) ==
    IF k = 0 THEN 0
    ELSE LET p == analyses[k].p_value
         IN  IF p < 10 THEN 3
             ELSE IF p < 50 THEN 2
             ELSE IF p < 100 THEN 1
             ELSE 0

\* renderCoefPlot: the rows drawn and the stars after their coefficients
renderCoefPlot(analyses, baseline, current) ==
    [kind |-> "plot", baseline |-> baseline, current |-> current,
     bStars |-> getSignificanceStars(analyses, baseline),
     cStars |-> getSignificanceStars(analyses, current)]

PlotPlaceholder ==
    [kind |-> "placeholder", baseline |-> 0, current |-> 0,
     bStars |-> 0, cStars |-> 0]

\* initCoefPlot
initCoefPlot(analyses) ==
    LET demBaseline == getBaseline(analyses, "dem_share")
    IN  IF demBaseline # 0
        THEN renderCoefPlot(analyses, demBaseline, 0)
        ELSE PlotPlaceholder

\* the cell of the observations row (analysis 0: 'N/A')
ObservationsCell(k) == [analysis |-> k, stars |-> 0, significant |-> FALSE]

\* displayBaselineTable: one row per specification and the observations row
displayBaselineTable(analyses) ==
    LET Found(spec) ==
            <<findAnalysis(analyses, "dem_share", spec, Null, <<1996, 2018>>),
              findAnalysis(analyses, "dem_share", spec, Null, NoTime),
              findAnalysis(analyses, "turnout", spec, Null, <<1996, 2018>>),
              findAnalysis(analyses, "turnout", spec, Null, NoTime)>>
        Row(spec) == [c \in 1..4 |-> formatCell(analyses, Found(spec)[c])]
        Observations == [c \in 1..4 |-> ObservationsCell(Found("basic")[c])]
    IN  <<Row("basic"), Row("linear"), Row("quadratic"), Observations>>

\* loadAnalysisData succeeds: the rest of init() runs
LoadOk(corpus) ==
    /\ pc = "loading"
    /\ pc' = "ready"
    /\ analysisData' = corpus
    /\ tableBody' = displayBaselineTable(corpus)
    /\ plot' = initCoefPlot(corpus)
    /\ queryCount' = loadQueryCounts(stored, queryCount, now)
    /\ counterText' = updateQueryCounters(queryCount').text
    /\ submitDisabled' = updateQueryCounters(queryCount').disabled
    /\ UNCHANGED <<stored, now, inputValue, inputDisabled, messages, spinners,
                   pending, sent, accepted, match>>

\* loadAnalysisData throws: showError and return
LoadFail ==
    /\ pc = "loading"
    /\ pc' = "failed"
    /\ UNCHANGED <<tableBody, analysisData, queryCount, stored, now, inputValue,
                   inputDisabled, submitDisabled, counterText, messages,
                   spinners, pending, plot, sent, accepted, match>>

-----------------------------------------------------------------------------
(* handleQuery *)

Message(role, kind, qid, analysis) ==
    [role |-> role, kind |-> kind, qid |-> qid, analysis |-> analysis]

Handled == Cardinality({k \in 1..Len(messages) :
                            messages[k].kind \in {"user", "limit"}})

\* variant: the query that reaches the limit is still let through
RateLimitedLate(count) == count > MAX_QUERIES_PER_HOUR

\* the count at which handleQuery refuses a query
RateLimited(count) == count >= MAX_QUERIES_PER_HOUR

\* tableSubmit.disabled as handleQuery leaves it when it suspends on fetch
SubmitWhileWaiting(count) == updateQueryCounters(count).disabled

\* the baseline generateResponse puts in the prompt (0: no baseline facts);
\* generateNoMatchResponse uses none
PromptBaseline(analyses, m, low) ==
    IF low THEN 0 ELSE getBaseline(analyses, analyses[m.analysis].outcome)

\* handleQuery up to its first suspension, for the given input value
handleQuery(value) ==
    LET query == trim(value)
    IN  IF query = ""
        THEN /\ inputValue' = value
             /\ UNCHANGED <<queryCount, stored, inputDisabled, submitDisabled,
                            counterText, messages, spinners, pending, sent,
                            accepted, match>>
        ELSE /\ Handled < MaxQueries
             /\ IF RateLimited(queryCount)
                THEN /\ inputValue' = value
                     /\ messages' = Append(messages,
                                       Message("assistant", "limit", 0, 0))
                     /\ UNCHANGED <<queryCount, stored, inputDisabled,
                                    submitDisabled, counterText, spinners,
                                    pending, sent, accepted, match>>
                ELSE LET m == findBestMatchKeyword(query, analysisData)
                         low == BelowThreshold(m.similarity)
                     IN  /\ inputDisabled' = TRUE
                         /\ messages' = Append(messages,
                                 Message("user", "user", accepted + 1, 0))
                         /\ inputValue' = ""
                         /\ spinners' = spinners + 1
                         /\ match' = m
                         /\ queryCount' = queryCount + 1
                         /\ stored' = StoredItem(queryCount', now)
                         /\ counterText' = updateQueryCounters(queryCount').text
                         /\ submitDisabled' = SubmitWhileWaiting(queryCount')
                         /\ sent' = sent + 1
                         /\ accepted' = accepted + 1
                         /\ pending' = pending \cup
                                {[qid |-> accepted + 1, low |-> low,
                                  analysis |-> m.analysis,
                                  baseline |-> PromptBaseline(analysisData, m, low)]}

\* click on the submit button
SubmitClick ==
    /\ pc = "ready"
    /\ ~submitDisabled
    /\ handleQuery(inputValue)
    /\ UNCHANGED <<pc, tableBody, analysisData, now, plot>>

\* Enter pressed in the text input
EnterKey ==
    /\ pc = "ready"
    /\ ~inputDisabled
    /\ handleQuery(inputValue)
    /\ UNCHANGED <<pc, tableBody, analysisData, now, plot>>

\* variant: the listener is registered before the corpus is loaded
ExampleClickUnregistered(q) ==
    /\ handleQuery(q)
    /\ UNCHANGED <<pc, tableBody, analysisData, now, plot>>

\* variant: the matcher sorts the corpus in place, best match first
ExampleClickReordering(q) ==
    /\ pc = "ready"
    /\ handleQuery(q)
    /\ analysisData' =
           IF match'.analysis = 0 \/ match' = match THEN analysisData
           ELSE <<analysisData[match'.analysis]>>
                \o SubSeq(analysisData, 1, match'.analysis - 1)
                \o SubSeq(analysisData, match'.analysis + 1, Len(analysisData))
    /\ UNCHANGED <<pc, tableBody, now, plot>>

\* click on an example button
ExampleClick(q) ==
    /\ pc = "ready"
    /\ handleQuery(q)
    /\ UNCHANGED <<pc, tableBody, analysisData, now, plot>>

\* the user edits the text input
TypeText(t) ==
    /\ pc = "ready"
    /\ ~inputDisabled
    /\ inputValue # t
    /\ inputValue' = t
    /\ UNCHANGED <<pc, tableBody, analysisData, queryCount, stored, now, inputDisabled,
                   submitDisabled, counterText, messages, spinners, pending,
                   plot, sent, accepted, match>>

\* variant: the plot keeps showing the baseline row alone
updateCoefPlotBaselineOnly(analyses, analysis) ==
    renderCoefPlot(analyses, getBaseline(analyses, analyses[analysis].outcome), 0)

\* variant: without a baseline the placeholder is shown, as initCoefPlot does
updateCoefPlotNeedsBaseline(analyses, analysis) ==
    IF getBaseline(analyses, analyses[analysis].outcome) # 0
    THEN renderCoefPlot(analyses,
                        getBaseline(analyses, analyses[analysis].outcome),
                        analysis)
    ELSE PlotPlaceholder

\* updateCoefPlot, called by addMessage when it is given an analysis
updateCoefPlot(analyses, analysis) ==
    renderCoefPlot(analyses, getBaseline(analyses, analyses[analysis].outcome),
                   analysis)

\* variant: the text input is not re-enabled
FinishInputStaysDisabled ==
    /\ spinners' = IF spinners > 0 THEN spinners - 1 ELSE spinners
    /\ inputDisabled' = inputDisabled
    /\ submitDisabled' = (queryCount >= MAX_QUERIES_PER_HOUR)

\* the end of handleQuery: spinner removed, controls re-enabled
Finish ==
    /\ spinners' = IF spinners > 0 THEN spinners - 1 ELSE spinners
    /\ inputDisabled' = FALSE
    /\ submitDisabled' = (queryCount >= MAX_QUERIES_PER_HOUR)

\* variant: the best match is passed to addMessage on the fallback path too
ReplyAnalysisAlways(h) == h.analysis

\* the analysis handleQuery passes to addMessage with the reply
ReplyAnalysis(h) == IF h.low THEN 0 ELSE h.analysis

\* addMessage: the plot after the message is added
addMessagePlot(analyses, analysis, current) ==
    IF analysis # 0 THEN updateCoefPlot(analyses, analysis) ELSE current

\* the narration request of invocation h returns a reply
NarrationOk(h) ==
    /\ h \in pending
    /\ pending' = pending \ {h}
    /\ messages' = Append(messages,
                      Message("assistant",
                              IF h.low THEN "fallback" ELSE "narration",
                              h.qid, ReplyAnalysis(h)))
    /\ plot' = addMessagePlot(analysisData, ReplyAnalysis(h), plot)
    /\ Finish
    /\ UNCHANGED <<pc, tableBody, analysisData, queryCount, stored, now, inputValue,
                   counterText, sent, accepted, match>>

\* the narration request of invocation h fails (non-success or transport)
NarrationFail(h) ==
    /\ h \in pending
    /\ pending' = pending \ {h}
    /\ messages' = Append(messages, Message("assistant", "error", h.qid, 0))
    /\ Finish
    /\ UNCHANGED <<pc, tableBody, analysisData, queryCount, stored, now, inputValue,
                   counterText, plot, sent, accepted, match>>

\* time passes
Tick ==
    /\ now < MaxTicks * ClockStep
    /\ now' = now + ClockStep
    /\ UNCHANGED <<pc, tableBody, analysisData, queryCount, stored, inputValue,
                   inputDisabled, submitDisabled, counterText, messages,
                   spinners, pending, plot, sent, accepted, match>>

Next ==
    \/ \E corpus \in ServedCorpora : LoadOk(corpus)
    \/ LoadFail
    \/ SubmitClick
    \/ EnterKey
    \/ \E q \in ExampleQueries : ExampleClick(q)
    \/ \E t \in TypedTexts : TypeText(t)
    \/ \E h \in pending : NarrationOk(h)
    \/ \E h \in pending : NarrationFail(h)
    \/ Tick

Spec == Init /\ [][Next]_vars

-----------------------------------------------------------------------------
(* The page when the corpus served has nothing to match: no record at all, or
   a record with an outcome the matcher skips and one most queries score 0 *)

SparseCorpus == <<HouseBasic, TurnoutFullLinear>>

SparseCorpora == {<<>>, SparseCorpus}

SparseNext ==
    \/ \E corpus \in SparseCorpora : LoadOk(corpus)
    \/ LoadFail
    \/ SubmitClick
    \/ EnterKey
    \/ \E q \in ExampleQueries : ExampleClick(q)
    \/ \E t \in TypedTexts : TypeText(t)
    \/ \E h \in pending : NarrationOk(h)
    \/ \E h \in pending : NarrationFail(h)
    \/ Tick

SpecSparse == Init /\ [][SparseNext]_vars

-----------------------------------------------------------------------------
(* The matcher on its own: every text against every corpus *)

MatchInit ==
    /\ pc = "ready"
    /\ analysisData \in Corpora
    /\ stored = NoItem
    /\ now = 0
    /\ PageInit

RunMatch(text) ==
    /\ match = NoMatch
    /\ match' = findBestMatchKeyword(text, analysisData)
    /\ UNCHANGED <<pc, tableBody, analysisData, queryCount, stored, now, inputValue,
                   inputDisabled, submitDisabled, counterText, messages,
                   spinners, pending, plot, sent, accepted>>

MatchNext == \E text \in Texts : RunMatch(text)

SpecMatch == MatchInit /\ [][MatchNext]_vars

-----------------------------------------------------------------------------
(* The presenter on its own: init() over corpora that hold the dem_share
   baseline with every estimation outcome *)

\* p-values in thousandths: every value up to 0.11, then 0.5 and 1
PValues == (0..110) \cup {500, 1000}

FormatCorpora ==
    {<<Estimated(PooledQuadratic, success, p)>> :
        success \in BOOLEAN, p \in PValues}
    \cup {<<PooledQuadraticOmitted>>,
          <<PooledQuadraticOmitted, PooledQuadratic>>,
          <<PooledPost2018, PooledCAOnly>>}

FormatNext == \E corpus \in FormatCorpora : LoadOk(corpus)

SpecFormat == Init /\ [][FormatNext]_vars

-----------------------------------------------------------------------------
(* Properties *)

ExcludeFilters == {"exclude_CA", "exclude_UT", "exclude_WA"}
OnlyFilters == {"CA", "UT", "WA"}

\* one of the six exclusion rules of `patterns` matches the text
ExclusionRuleFires(text) ==
    LET s == toLowerCase(text)
    IN  \/ ReExclud(s, "california", "ca") \/ ReExcl(s, "california", "ca")
        \/ ReExclud(s, "utah", "ut") \/ ReExcl(s, "utah", "ut")
        \/ ReExclud(s, "washington", "wa") \/ ReExcl(s, "washington", "wa")

Corpus == {analysisData[k] : k \in 1..Len(analysisData)}

Matched == match.query # ""

\* C1: whenever an exclusion rule fires on the query text, the interpreted
\* state filter is an exclude_* value and never a state-only value, whatever
\* other state names the text mentions; "excluding California" gives
\* exclude_CA.
C1_ExclusionDominates ==
    /\ (Matched /\ ExclusionRuleFires(match.query))
           => /\ match.target.targetFilter \in ExcludeFilters
              /\ match.target.targetFilter \notin OnlyFilters
    /\ match.query = "excluding California"
           => match.target.targetFilter = "exclude_CA"

\* an exclusion of one state in a text that also names another state
C1_Witness ==
    /\ match.query = "Excluding California but keep Utah"
    /\ ReState(toLowerCase(match.query), "utah", "ut")
    /\ match.target.targetFilter = "exclude_CA"

\* C2 (Scenario A): "What if we excluded California?" against a corpus that
\* holds the pooled/basic/exclude_CA/full-window/unweighted/county record
\* is read as exclude_CA and selects that record with confidence >= 0.5.
C2_ScenarioA ==
    (match.query = "What if we excluded California?" /\ PooledExclCA \in Corpus)
        => /\ match.target.targetFilter = "exclude_CA"
           /\ match.analysis # 0
           /\ analysisData[match.analysis] = PooledExclCA
           /\ 2 * match.similarity[1] >= match.similarity[2]

\* C3 (Scenario C): "What about third-party vote share?" gets a confidence
\* below 0.5 against every corpus of records with the five defined outcomes.
C3_ScenarioC ==
    match.query = "What about third-party vote share?"
        => 2 * match.similarity[1] < match.similarity[2]

\* C4: the confidence returned by findBestMatchKeyword lies in [0, 1].
C4_ConfidenceInUnitInterval ==
    /\ 0 <= match.similarity[1]
    /\ match.similarity[1] <= match.similarity[2]

LastAccepted == {h \in pending : h.qid = accepted}

\* C6: handleQuery takes the fallback path iff the confidence is strictly
\* below 0.5; a best score of exactly 15 is handled as a confident match.
C6_ThresholdInclusive ==
    \A h \in LastAccepted :
        /\ h.low <=> (2 * match.similarity[1] < match.similarity[2])
        /\ match.similarity[1] = 15 => (~h.low /\ h.analysis # 0)

\* a query whose best score is exactly 15 waits for generateResponse
C6_Witness ==
    \E h \in LastAccepted :
        /\ match.similarity = <<15, 30>>
        /\ ~h.low
        /\ h.analysis # 0

\* C7: at most one narration request is in flight, and replies are appended
\* in submission order.
C7_OneAtATime ==
    /\ Cardinality(pending) <= 1
    /\ \A i, j \in 1..Len(messages) :
           (i < j /\ messages[i].role = "assistant" /\ messages[i].qid # 0
                  /\ messages[j].role = "assistant" /\ messages[j].qid # 0)
               => messages[i].qid < messages[j].qid

\* C8: while a narration round trip is pending, the text input and the
\* submit control are both disabled.
C8_DisabledWhilePending ==
    pending # {} => (inputDisabled /\ submitDisabled)

\* a step of handleQuery that refuses the query
Refused ==
    /\ Len(messages') = Len(messages) + 1
    /\ messages'[Len(messages')].kind = "limit"

\* C9: at the limit handleQuery sends nothing and leaves the counter alone;
\* an accepted query adds exactly one to the counter and sends exactly one
\* request, and the end of a round trip (reply or failure) leaves the
\* counter alone; so the counter never passes MAX_QUERIES_PER_HOUR and the
\* page never sends more requests than the counter shows.
C9_RateGuard ==
    /\ [](pc = "ready" => (queryCount <= MAX_QUERIES_PER_HOUR
                            /\ sent <= queryCount))
    /\ [][(pc = "ready" /\ queryCount >= MAX_QUERIES_PER_HOUR)
              => (sent' = sent /\ queryCount' = queryCount
                  /\ pending' \subseteq pending)]_vars
    /\ [][accepted' # accepted
              => (queryCount' = queryCount + 1 /\ sent' = sent + 1)]_vars
    /\ [][(pc = "ready" /\ accepted' = accepted)
              => (queryCount' = queryCount /\ sent' = sent)]_vars

\* the limit was reached by an accepted query and the next one was refused
C9_Witness ==
    /\ queryCount = MAX_QUERIES_PER_HOUR
    /\ sent > 0
    /\ \E k \in 1..Len(messages) : messages[k].kind = "limit"

\* C10: once the limit was reached in the running page, no query is refused
\* when no round trip is pending and an hour or more has passed since the
\* counter was last saved.
C10_LimitClears ==
    [][(sent > 0 /\ pending = {} /\ stored # NoItem
            /\ now - stored[1].timestamp >= HourMs)
           => ~Refused]_vars

\* the analyses the scoring loop does not skip
Relevant == {k \in 1..Len(analysisData) :
                 analysisData[k].outcome \in relevantOutcomes}

\* C11: the record returned has the highest score of the corpus, and among
\* the records with that score it is the first in corpus order (a later
\* record replaces the best one only with a strictly greater score).
C11_FirstOfBestWins ==
    (Matched /\ match.analysis # 0) =>
        /\ match.analysis \in Relevant
        /\ match.similarity[1] = Score(match.target, analysisData[match.analysis])
        /\ \A k \in Relevant :
               /\ Score(match.target, analysisData[k]) <= match.similarity[1]
               /\ k < match.analysis
                      => Score(match.target, analysisData[k]) < match.similarity[1]

\* two different records tie on the highest score and the first is returned
C11_Witness ==
    /\ match.query = "hello"
    /\ analysisData = <<PooledBasic, PooledByState>>
    /\ Score(match.target, PooledBasic) = Score(match.target, PooledByState)
    /\ match.analysis = 1

\* the intent t with one dimension set to the value that aligns with record a
Aligned(t, a, dimension) ==
    CASE dimension = "filter"   -> [t EXCEPT !.targetFilter = a.state_filter]
      [] dimension = "time"     -> [t EXCEPT !.targetTime = a.time_window]
      [] dimension = "outcome"  -> [t EXCEPT !.targetOutcome = a.outcome]
      [] dimension = "weighted" -> [t EXCEPT !.targetWeighted = a.weighted]
      [] dimension = "spec"     -> [t EXCEPT !.targetSpec = a.specification]

Dimensions == {"filter", "time", "outcome", "weighted", "spec"}

\* C13: for every record, setting one dimension of the intent to the value
\* that aligns with the record (the others unchanged) never lowers the
\* record's score.
C13_ScoreMonotone ==
    Matched =>
        \A k \in 1..Len(analysisData) : \A d \in Dimensions :
            Score(Aligned(match.target, analysisData[k], d), analysisData[k])
                >= Score(match.target, analysisData[k])

\* "quad trends" against the pooled basic record scores 2 + 2 + 1 + 1 + 0;
\* aligning the specification adds the 3 of the specification term
C13_Witness ==
    /\ match.query = "quad trends"
    /\ analysisData = <<PooledBasic>>
    /\ match.target.targetSpec = "quadratic"
    /\ match.similarity[1] = 6
    /\ Score(Aligned(match.target, PooledBasic, "spec"), PooledBasic) = 9

\* C14 (Scenario D): "Did the effect change after 2018?" sets the time window
\* to (2018, 2024) and nothing else: outcome unset (so only pooled vote-share
\* records get the outcome bonus of 1), no state filter, basic, unweighted.
C14_ScenarioD ==
    match.query = "Did the effect change after 2018?" =>
        /\ match.target = [targetFilter |-> Null, targetTime |-> <<2018, 2024>>,
                           targetOutcome |-> Null, targetWeighted |-> FALSE,
                           targetSpec |-> "basic"]
        /\ \A k \in 1..Len(analysisData) :
               OutcomeTerm(match.target, analysisData[k])
                   = IF analysisData[k].outcome = "dem_share" THEN 1 ELSE 0

\* the text selects the pooled post-2018 record ahead of a turnout record:
\* 2 + 10 + 1 + 1 + 3 = 17 against 2 + 0 + 0 + 1 + 0 = 3
C14_Witness ==
    /\ match.query = "Did the effect change after 2018?"
    /\ analysisData = <<TurnoutLinear, PooledPost2018>>
    /\ match.analysis = 2
    /\ match.similarity[1] = 17

Last(msgs) == msgs[Len(msgs)]

\* the step in which the suspended invocation h of handleQuery resumes and
\* runs to its end
Resumes(h) ==
    /\ h \in pending
    /\ h \notin pending'
    /\ Len(messages') = Len(messages) + 1

\* C15: a query whose confidence is below 0.5 ends with a message that has no
\* result preview (addMessage gets no record) and leaves the coefficient
\* plot and the table as they were.
C15_FallbackLeavesDisplay ==
    [][\A h \in pending :
           (Resumes(h) /\ h.low)
               => /\ Last(messages').kind \in {"fallback", "error"}
                  /\ Last(messages').analysis = 0
                  /\ plot' = plot
                  /\ tableBody' = tableBody]_vars

\* a fallback reply was shown for a query that had a best match, and the
\* plot still shows what init() put there
C15_Witness ==
    /\ \E k \in 1..Len(messages) : messages[k].kind = "fallback"
    /\ match.analysis # 0
    /\ BelowThreshold(match.similarity)
    /\ plot.current = 0

\* C16 as stated: whenever handleQuery finishes for a query whose confidence
\* is >= 0.5, the message it added previews the matched record and the plot
\* shows it.
C16_ShownWhenFinished ==
    [][\A h \in pending :
           (Resumes(h) /\ ~h.low)
               => /\ Last(messages').analysis = h.analysis
                  /\ plot'.current = h.analysis]_vars

\* C16 as amended: narration is requested for exactly the matched record;
\* when the request succeeds the preview and the plot show that record as
\* handleQuery finishes; when it fails an error message without preview is
\* added and the plot is left alone.
C16_ShownWhenNarrated ==
    /\ [][accepted' # accepted
              => \E h \in pending' \ pending :
                     /\ h.qid = accepted'
                     /\ h.analysis = match'.analysis
                     /\ h.low <=> (2 * match'.similarity[1] < match'.similarity[2])]_vars
    /\ [][\A h \in pending :
              (Resumes(h) /\ ~h.low)
                  => \/ /\ Last(messages').kind = "narration"
                        /\ Last(messages').qid = h.qid
                        /\ Last(messages').analysis = h.analysis
                        /\ plot'.kind = "plot"
                        /\ plot'.current = h.analysis
                     \/ /\ Last(messages').kind = "error"
                        /\ Last(messages').analysis = 0
                        /\ plot' = plot]_vars

\* the reply to a confident query is on the page with its preview, and the
\* plot shows the same record
C16_Witness ==
    \E k \in 1..Len(messages) :
        /\ messages[k].kind = "narration"
        /\ messages[k].analysis # 0
        /\ plot.kind = "plot"
        /\ plot.current = messages[k].analysis

HasError == \E k \in 1..Len(messages) : messages[k].kind = "error"

\* C17: a failed narration request adds an error message for that query,
\* removes a spinner, re-enables the text input, leaves the submit control
\* disabled only at the limit, and leaves the counter alone; after a failure
\* a query is refused only at the limit.
C17_FailureIsLocal ==
    /\ [][\A h \in pending :
              (Resumes(h) /\ Last(messages').kind = "error")
                  => /\ Last(messages').qid = h.qid
                     /\ spinners' = spinners - 1
                     /\ ~inputDisabled'
                     /\ submitDisabled' <=> (queryCount >= MAX_QUERIES_PER_HOUR)
                     /\ queryCount' = queryCount
                     /\ pc' = "ready"]_vars
    /\ [][(HasError /\ Refused) => queryCount >= MAX_QUERIES_PER_HOUR]_vars

\* the first query failed, the second was accepted and answered
C17_Witness ==
    /\ Len(messages) = 4
    /\ messages[2].kind = "error" /\ messages[2].qid = 1
    /\ messages[3].kind = "user" /\ messages[3].qid = 2
    /\ messages[4].kind = "narration" /\ messages[4].qid = 2
    /\ ~inputDisabled
    /\ spinners = 0

\* C18: after a failed corpus load the page stays failed: the corpus is
\* unset, nothing was rendered, no query is ever handled and no request is
\* sent; the corpus is loaded at most once.
C18_LoadFailureIsFatal ==
    /\ [](pc = "failed"
            => /\ analysisData = <<>>
               /\ tableBody = <<>>
               /\ plot = EmptyPlot
               /\ messages = <<>>
               /\ pending = {}
               /\ sent = 0
               /\ accepted = 0
               /\ queryCount = 0)
    /\ [][pc = "failed" => pc' = "failed"]_vars
    /\ [][pc # "loading" => analysisData' = analysisData]_vars

\* time has passed since the load failed
C18_Witness ==
    /\ pc = "failed"
    /\ now = MaxTicks * ClockStep

\* the record getBaseline is meant to find for an outcome
BaselineRecord(outcome) ==
    Analysis(IF outcome = "turnout" THEN "turnout" ELSE "dem_share",
             "quadratic", Null, NoTime, FALSE, "county")

\* b refers to the baseline record of the outcome, or to nothing if the
\* corpus does not hold it
IsBaselineOf(b, outcome) ==
    IF BaselineRecord(outcome) \in Corpus
    THEN b # 0 /\ analysisData[b] = BaselineRecord(outcome)
    ELSE b = 0

\* C19: the baseline shown with a matched record, and the baseline put in
\* its narration prompt, is the pooled quadratic full-sample full-window
\* unweighted county record for the four vote-share outcomes and the turnout
\* one for turnout, whatever was asked or matched before.
C19_BaselineFixed ==
    /\ (plot.kind = "plot" /\ plot.current = 0)
           => IsBaselineOf(plot.baseline, "dem_share")
    /\ (plot.kind = "plot" /\ plot.current # 0)
           => IsBaselineOf(plot.baseline, analysisData[plot.current].outcome)
    /\ \A h \in pending :
           ~h.low => IsBaselineOf(h.baseline, analysisData[h.analysis].outcome)

\* a presidential record is shown against the pooled baseline
C19_Witness ==
    /\ plot.current # 0
    /\ analysisData[plot.current].outcome = "dem_share_pres"
    /\ plot.baseline # 0
    /\ analysisData[plot.baseline] = PooledQuadratic

\* C20: when the corpus has no baseline record for the matched outcome, the
\* narration prompt carries no baseline and a successful reply leaves a plot
\* with the matched record's row only, below a message with its preview.
C20_NoBaselineStillShown ==
    /\ [](\A h \in pending :
              (~h.low /\ BaselineRecord(analysisData[h.analysis].outcome) \notin Corpus)
                  => h.baseline = 0)
    /\ [][\A h \in pending :
              (/\ Resumes(h)
               /\ ~h.low
               /\ Last(messages').kind # "error"
               /\ BaselineRecord(analysisData[h.analysis].outcome) \notin Corpus)
                  => /\ Last(messages').kind = "narration"
                     /\ Last(messages').analysis = h.analysis
                     /\ plot'.kind = "plot"
                     /\ plot'.baseline = 0
                     /\ plot'.current = h.analysis]_vars

\* a matched record is plotted without a baseline row
C20_Witness ==
    /\ plot.kind = "plot"
    /\ plot.baseline = 0
    /\ plot.current # 0
    /\ BaselineRecord(analysisData[plot.current].outcome) \notin Corpus
    /\ Len(messages) > 0
    /\ Last(messages).kind = "narration"

-----------------------------------------------------------------------------
(* Presentation *)

\* the stars the thresholds 0.01, 0.05 and 0.1 give a p-value (in thousandths)
StarsOf(p) ==
    CASE p < 10               -> 3
      [] p >= 10 /\ p < 50    -> 2
      [] p >= 50 /\ p < 100   -> 1
      [] p >= 100             -> 0

\* the cell of the baseline table that shows the quadratic dem_share analysis
\* over the full period
DemExtQuadraticCell == tableBody[3][2]

\* C21: the stars follow the p-value with strict upper bounds (three below
\* 0.01, two from 0.01 below 0.05, one from 0.05 below 0.1, none from 0.1),
\* both in the stars getSignificanceStars puts on the plot and in the stars
\* formatCell puts in the table cell of the same successful analysis, so the
\* two agree on every p-value.
C21_StarsFollowThresholds ==
    (pc = "ready" /\ plot.baseline # 0) =>
        LET analysis == analysisData[plot.baseline]
        IN  /\ plot.bStars = StarsOf(analysis.p_value)
            /\ analysis.success =>
                   /\ DemExtQuadraticCell.analysis = plot.baseline
                   /\ DemExtQuadraticCell.stars = StarsOf(analysis.p_value)
                   /\ DemExtQuadraticCell.stars = plot.bStars

\* a successful analysis with p = 0.01 exactly is shown with two stars in
\* the table and on the plot
C21_Witness ==
    /\ pc = "ready"
    /\ plot.baseline # 0
    /\ analysisData[plot.baseline].success
    /\ analysisData[plot.baseline].p_value = 10
    /\ DemExtQuadraticCell.stars = 2
    /\ plot.bStars = 2

\* C22: once loaded the corpus is read-only: no step of the page (a submit,
\* a key press, an example click, a narration reply or failure, typing, the
\* clock) creates, changes, removes or reorders a record, so the corpus after
\* any handleQuery is the corpus as loaded.
C22_CorpusReadOnly ==
    [][pc = "ready" => analysisData' = analysisData]_vars

\* a query was matched, narrated and plotted with a baseline, and the corpus
\* is the one that was served
C22_Witness ==
    /\ pc = "ready"
    /\ accepted > 0
    /\ pending = {}
    /\ plot.kind = "plot"
    /\ plot.current > 1
    /\ plot.baseline # 0
    /\ analysisData = PaperCorpus

-----------------------------------------------------------------------------
(* Matching: defaults, absence and rule order *)

\* C23: for a query without a clustering cue (no query text of the model has
\* one) the matcher does not return a record clustered by state or by
\* state-year when the corpus holds the county-clustered record with the same
\* outcome, specification, state filter, time window and weighting, whatever
\* the order of the records.
C23_CountyClusterPreferred ==
    (Matched /\ match.analysis # 0
        /\ analysisData[match.analysis].cluster # "county")
        => [analysisData[match.analysis] EXCEPT !.cluster = "county"] \notin Corpus

\* the matcher's scoring counts the record's state filter and time window as
\* absent: against criteria that name neither, both terms give the bonus 2
ScoredAbsent(analysis) ==
    /\ StateFilterTerm(InitialTarget, analysis) = 2
    /\ TimeWindowTerm(InitialTarget, analysis) = 2

\* C24: findAnalysis called with an absent state filter and an absent time
\* window (as initCoefPlot does for the dem_share baseline) finds a record
\* with the requested outcome, specification, weighting and clustering
\* exactly when the matcher's scoring counts both fields of some such record
\* as absent, whether the record stores null or omits the field, and the
\* record found is one of those.
C24_AbsenceConsistent ==
    pc = "ready" =>
        LET candidates ==
                {k \in 1..Len(analysisData) :
                    /\ analysisData[k].outcome = "dem_share"
                    /\ analysisData[k].specification = "quadratic"
                    /\ ~analysisData[k].weighted
                    /\ analysisData[k].cluster = "county"
                    /\ ScoredAbsent(analysisData[k])}
        IN  /\ plot.baseline # 0 => plot.baseline \in candidates
            /\ candidates # {} => plot.baseline \in candidates

\* the five terms as the scoring rules state them
FilterAbsent(f) == f = Null \/ f = Undefined
WindowAbsent(w) == w = NoTime \/ w = UndefinedTime

StatedScore(t, a) ==
    (CASE ~FilterAbsent(t.targetFilter) /\ a.state_filter = t.targetFilter -> 10
       [] FilterAbsent(t.targetFilter) /\ FilterAbsent(a.state_filter)    -> 2
       [] OTHER -> 0)
  + (CASE ~WindowAbsent(t.targetTime) /\ a.time_window = t.targetTime -> 10
       [] WindowAbsent(t.targetTime) /\ WindowAbsent(a.time_window)  -> 2
       [] OTHER -> 0)
  + (CASE t.targetOutcome # Null /\ a.outcome = t.targetOutcome -> 10
       [] t.targetOutcome = Null /\ a.outcome = "dem_share"     -> 1
       [] OTHER -> 0)
  + (CASE t.targetWeighted /\ a.weighted   -> 5
       [] ~t.targetWeighted /\ ~a.weighted -> 1
       [] OTHER -> 0)
  + (IF a.specification = t.targetSpec THEN 3 ELSE 0)

\* C25: the score of a record with a relevant outcome is the sum of the five
\* terms: state filter 10 / 2 / 0, time window 10 / 2 / 0, outcome 10 / 1 / 0,
\* weighting 5 / 1 / 0 and specification 3 / 0. The score returned with the
\* best match is that sum for the returned record, no relevant record has a
\* larger sum, and without a returned record every sum is 0.
C25_ScoreIsSumOfTerms ==
    Matched =>
        /\ \A k \in Relevant :
               Score(match.target, analysisData[k])
                   = StatedScore(match.target, analysisData[k])
        /\ \A k \in Relevant :
               StatedScore(match.target, analysisData[k]) <= match.similarity[1]
        /\ match.analysis # 0 =>
               match.similarity[1]
                   = StatedScore(match.target, analysisData[match.analysis])
        /\ match.analysis = 0 => match.similarity[1] = 0

\* "excluding California" against a corpus with the pooled record without
\* California: 10 for the filter, 2 for the absent window, 1 for the pooled
\* outcome, 1 for unweighted and 3 for basic
C25_Witness ==
    /\ Matched
    /\ match.analysis # 0
    /\ match.target.targetFilter = "exclude_CA"
    /\ match.target.targetOutcome = Null
    /\ analysisData[match.analysis] = PooledExclCA
    /\ match.similarity[1] = 17

\* the specification of the first specification rule that matches the text
\* (linear, then quadratic / quad, then basic / simple); basic when none does
FirstSpecRule(text) ==
    LET s == toLowerCase(text)
    IN  IF ReLinear(s) THEN "linear"
        ELSE IF ReQuadratic(s) THEN "quadratic"
        ELSE "basic"

\* C26: the specification of the criteria is that of the first specification
\* rule the query matches, in the order linear, quadratic, basic; a later
\* matching specification rule does not overwrite it.
C26_SpecFirstMatchWins ==
    Matched => match.target.targetSpec = FirstSpecRule(match.query)

\* the outcome of the first outcome rule that matches the text, in the order
\* turnout, presidential, governor, senate, pooled vote share; null when none
FirstOutcomeRule(text) ==
    LET s == toLowerCase(text)
    IN  IF ReTurnout(s) THEN "turnout"
        ELSE IF RePres(s) THEN "dem_share_pres"
        ELSE IF ReGov(s) THEN "dem_share_gov"
        ELSE IF ReSen(s) THEN "dem_share_sen"
        ELSE IF ReVoteShare(s) THEN "dem_share"
        ELSE Null

\* the number of outcome rules that match the text
OutcomeRulesMatching(text) ==
    LET s == toLowerCase(text)
    IN  Cardinality({r \in {<<1, ReTurnout(s)>>, <<2, RePres(s)>>, <<3, ReGov(s)>>,
                            <<4, ReSen(s)>>, <<5, ReVoteShare(s)>>} : r[2]})

\* C27: the outcome of the criteria is that of the first outcome rule the
\* query matches, in the order turnout, presidential, governor, senate,
\* pooled vote share; a query that mentions turnout resolves to turnout
\* whatever vote-share or race-type term it also holds.
C27_OutcomeByRuleOrder ==
    Matched =>
        /\ match.target.targetOutcome = FirstOutcomeRule(match.query)
        /\ ReTurnout(toLowerCase(match.query))
               => match.target.targetOutcome = "turnout"

\* a query that matches the turnout rule and a later outcome rule
C27_Witness ==
    /\ Matched
    /\ OutcomeRulesMatching(match.query) >= 2
    /\ ReTurnout(toLowerCase(match.query))
    /\ match.target.targetOutcome = "turnout"

\* the text asks to leave the year 2024 out, or names 1996-2022
OmitsYear2024(text) ==
    LET s == toLowerCase(text)
    IN  \/ Test(Lit(s, Positions(s), "without 2024"))
        \/ Test(Lit(s, Positions(s), "excluding 2024"))
        \/ Test(Lit(s, Positions(s), "exclude 2024"))

Names1996To2022(text) ==
    LET s == toLowerCase(text)
    IN  Test(Lit(s, AnyOpt(s, Lit(s, Positions(s), "1996")), "2022"))

\* C28: a text in which the post-2018 rule fires ("post-2018", "after 2018",
\* "2018-2024") and which neither asks to leave out the year 2024 nor names
\* 1996-2022 gives the time window (2018, 2024), also when the text excludes
\* a state.
C28_StateExclusionKeepsWindow ==
    (Matched /\ RePost2018(toLowerCase(match.query))
        /\ ~OmitsYear2024(match.query) /\ ~Names1996To2022(match.query))
        => match.target.targetTime = <<2018, 2024>>

-----------------------------------------------------------------------------
(* The stored counter *)

\* C29: the timestamp stored with the counter is the time the counter was
\* created: a query processed while the stored item is less than an hour old
\* updates the stored count and leaves the stored timestamp as it was.
C29_TimestampIsCreationTime ==
    [][(/\ stored # NoItem
        /\ stored' # NoItem
        /\ now - stored[1].timestamp < HourMs)
           => stored'[1].timestamp = stored[1].timestamp]_vars

-----------------------------------------------------------------------------
(* No match *)

\* C30: the matcher returns a record exactly when some record with a
\* relevant outcome scores more than 0, and otherwise no record with
\* confidence 0; handleQuery then asks for the fallback narration without a
\* baseline, and when the reply arrives it adds the fallback message without
\* a preview and leaves the plot as it was.
C30_NoMatchFallsBack ==
    /\ [](Matched =>
            /\ match.analysis # 0
                   <=> \E k \in Relevant : Score(match.target, analysisData[k]) > 0
            /\ match.analysis # 0 => match.analysis \in Relevant
            /\ match.analysis = 0 => match.similarity = <<0, maxPossibleScore>>)
    /\ [](\A h \in pending : h.analysis = 0 => (h.low /\ h.baseline = 0))
    /\ [][\A h \in pending :
              (Resumes(h) /\ h.analysis = 0 /\ Last(messages').kind # "error")
                  => /\ Last(messages').kind = "fallback"
                     /\ Last(messages').analysis = 0
                     /\ plot' = plot]_vars

\* against a corpus with records, a query none of them scores on was
\* answered with the fallback message and the plot is the one init() left
C30_Witness ==
    /\ pc = "ready"
    /\ Len(analysisData) > 0
    /\ Matched
    /\ match.analysis = 0
    /\ pending = {}
    /\ Len(messages) > 0
    /\ Last(messages).kind = "fallback"
    /\ plot = initCoefPlot(analysisData)

=============================================================================
